---- MODULE Spec2Model ----
(***************************************************************************)
(* The request router of src/unnamed/part_000 (registerRoutes) over the    *)
(* data access layer of src/index.ts (DatabaseStorage, lines 154-379).     *)
(*                                                                         *)
(* State: the tables the routes read and write (reviews, availability      *)
(* dates, availability time slots, galleries, photos) and the response to  *)
(* the last request.  One action per route; an action is the whole handler *)
(* (gate, parameter extraction, store calls, response or catch).           *)
(*                                                                         *)
(* GET /api/availability is also modelled read by read (SpecAggregation):  *)
(* its first select and each per-date slot select are steps of their own,  *)
(* which admin writes may come between.                                    *)
(*                                                                         *)
(* A request carries: whether its session identifies an admin, its path    *)
(* parameter, its JSON body fields, and what the handler's `new Date()`    *)
(* reads.  Every store call may reject (StoreError); a rejected statement  *)
(* changes no row.                                                         *)
(*                                                                         *)
(* The route families share no table (the statistics route only counts),   *)
(* so a behaviour exercises the routes of one family, chosen in Init.      *)
(***************************************************************************)
EXTENDS Integers, Sequences, FiniteSets, TLC

VARIABLES family, reviews, dates, slots, galleries, photos, resp,
          aggregation, past

vars == <<family, reviews, dates, slots, galleries, photos, resp, aggregation, past>>

stores == <<reviews, dates, slots, galleries, photos>>

\* What a handler that answers in one step leaves alone: the family being
\* served, the availability listing in flight and the log of store states.
aside == <<family, aggregation, past>>

(***************************************************************************)
(* Bounds of the model.                                                    *)
(***************************************************************************)
\* Store states the log of a read-by-read behaviour may hold.
MaxPast == 4

\* Rows the reviews table may hold.
MaxReviews == 2

\* Rows the two availability tables may hold together.
MaxAvailRows == 3

\* Rows either availability table may hold: half of them, rounded up.
MaxPerTable == (MaxAvailRows + 1) \div 2

\* Rows the galleries table may hold.
MaxGalleries == 2

\* Rows the photos table may hold.
MaxPhotos == 2

\* Clock readings per day (instants are counted in this unit).
TicksPerDay == 2

(***************************************************************************)
(* Values.                                                                 *)
(***************************************************************************)
\* An optional JSON field or nullable column: {} when absent, {v} when v.
Given(o) == o # {}

Val(o) == CHOOSE v \in o : TRUE

\* parseInt's NaN.  No id is negative, and no path parameter of the model
\* carries a sign, so the value is free.
NaN == 0 - 1

\* The id of a route that has no :id.
NoId == 0

Digits == <<"0", "1", "2", "3", "4", "5", "6", "7", "8", "9">>

IsDigit(c) == \E k \in 1..10 : Digits[k] = c

DigitVal(c) == (CHOOSE k \in 1..10 : Digits[k] = c) - 1

\* The length of the longest prefix of s made of digits.
RECURSIVE DigitPrefix(_)
DigitPrefix(s) ==
    IF s = <<>> \/ ~IsDigit(Head(s)) THEN 0 ELSE 1 + DigitPrefix(Tail(s))

RECURSIVE DigitsValue(_, _)
DigitsValue(s, n) ==
    IF n = 0 THEN 0 ELSE 10 * DigitsValue(s, n - 1) + DigitVal(s[n])

\* parseInt(id) of the handlers: the leading digits, NaN when there are none.
parseInt(s) ==
    IF DigitPrefix(s) = 0 THEN NaN ELSE DigitsValue(s, DigitPrefix(s))

\* The :id path parameters requests are made with.
PathIds == { <<"1">>, <<"2", "x">>, <<"x">> }

\* parseInt(id) of each of them.
ParsedId == [p \in PathIds |-> parseInt(p)]

(***************************************************************************)
(* The calendar of `new Date()` and Date.setMonth.  An instant counts      *)
(* ticks from 2025-01-01T00:00; 2025, 2026 and 2027 have no 29 February.   *)
(***************************************************************************)
YearDays == 365

\* Days before the first of month m (0-based, as Date.getMonth).
DaysBefore == <<0, 31, 59, 90, 120, 151, 181, 212, 243, 273, 304, 334>>

InstantOf(y, m, d, tod) ==
    ((y * YearDays) + DaysBefore[m + 1] + (d - 1)) * TicksPerDay + tod

DayOf(t) == t \div TicksPerDay

YearOf(t) == DayOf(t) \div YearDays

MonthOf(t) ==
    CHOOSE m \in 0..11 :
        /\ DaysBefore[m + 1] <= DayOf(t) % YearDays
        /\ (m = 11 \/ DayOf(t) % YearDays < DaysBefore[m + 2])

DateOf(t) == (DayOf(t) % YearDays) - DaysBefore[MonthOf(t) + 1] + 1

\* endDate.setMonth(endDate.getMonth() + n): the same day of month and time
\* of day n months on; a day past the end of that month runs into the next.
setMonth(t, n) ==
    LET months == (YearOf(t) * 12) + MonthOf(t) + n
    IN  InstantOf(months \div 12, months % 12, DateOf(t), t % TicksPerDay)

\* What `new Date()` reads in the handlers: 2025-11-30 at its last tick and
\* 2025-12-01T00:00.
Clock == { InstantOf(0, 10, 30, TicksPerDay - 1), InstantOf(0, 11, 1, 0) }

\* A handler that does not read the clock.
NoClock == 0

\* The two window ends the clock readings give.
WindowEnds == { setMonth(t, 3) : t \in Clock }

\* `new Date(req.body.date)` of a body whose date parses: the earlier clock
\* reading (the start of one window, before the other) and the two ends (the
\* earlier one in both windows, the later one past the end of the other).
BodyDates == { InstantOf(0, 10, 30, TicksPerDay - 1) } \cup WindowEnds

(***************************************************************************)
(* Responses.                                                              *)
(***************************************************************************)
Routes ==
    { "GET /api/reviews", "POST /api/reviews", "GET /api/admin/stats",
      "GET /api/reviews/pending", "PATCH /api/reviews/:id",
      "GET /api/availability", "POST /api/availability",
      "PATCH /api/availability/:id", "POST /api/availability/:id/timeslots",
      "PATCH /api/availability/timeslots/:id",
      "GET /api/galleries/access/:code" }

\* AdminRoutes with requireAdmin left out of the review patch route.
AdminRoutesButReviewPatch ==
    { "GET /api/admin/stats", "GET /api/reviews/pending", "POST /api/availability",
      "PATCH /api/availability/:id", "POST /api/availability/:id/timeslots",
      "PATCH /api/availability/timeslots/:id" }

\* The routes registered with requireAdmin before the handler.
AdminRoutes ==
    { "GET /api/admin/stats", "GET /api/reviews/pending",
      "PATCH /api/reviews/:id", "POST /api/availability",
      "PATCH /api/availability/:id", "POST /api/availability/:id/timeslots",
      "PATCH /api/availability/timeslots/:id" }

\* The message of each handler's catch block.
ErrorMessage(route) ==
    CASE route = "GET /api/reviews" -> "Errore nel recupero delle recensioni"
      [] route = "POST /api/reviews" -> "Errore nella creazione della recensione"
      [] route = "GET /api/admin/stats" -> "Errore nel recupero delle statistiche"
      [] route = "GET /api/reviews/pending" ->
            "Errore nel recupero delle recensioni in attesa"
      [] route = "PATCH /api/reviews/:id" ->
            "Errore nell'aggiornamento della recensione"
      [] route = "GET /api/availability" ->
            "Errore nel recupero delle disponibilita"
      [] route = "POST /api/availability" ->
            "Errore nella creazione della disponibilita"
      [] route = "PATCH /api/availability/:id" ->
            "Errore nell'aggiornamento della disponibilita"
      [] route = "POST /api/availability/:id/timeslots" ->
            "Errore nella creazione dello slot orario"
      [] route = "PATCH /api/availability/timeslots/:id" ->
            "Errore nell'aggiornamento dello slot orario"
      [] route = "GET /api/galleries/access/:code" -> "Errore del server"

\* res.json(undefined): no body.
EmptyBody == [kind |-> "empty"]

ErrorBody(msg) == [kind |-> "error", error |-> msg]

RowBody(row) == [kind |-> "row", row |-> row]

\* res.json(x) of a store result that is one row or undefined.
JsonOf(r) == IF Given(r) THEN RowBody(Val(r)) ELSE EmptyBody

\* CatchResponse with the catch block missing: the error reaches the
\* application's error middleware, which answers {message}.
UncaughtResponse(route) ==
    [status |-> 500, body |-> [kind |-> "message", message |-> "store error"]]

\* The catch block of a handler.
CatchResponse(route) == [status |-> 500, body |-> ErrorBody(ErrorMessage(route))]

\* The response of a request: the handler's answer and what it was asked.
Response(route, admin, id, arg, at, storeError, out) ==
    [route |-> route, admin |-> admin, id |-> id, arg |-> arg, at |-> at,
     storeError |-> storeError, status |-> out.status, body |-> out.body]

\* No request is being answered.
NoResponse ==
    [route |-> "none", admin |-> FALSE, id |-> NoId, arg |-> {}, at |-> NoClock,
     storeError |-> FALSE, status |-> 0, body |-> EmptyBody]

\* The server takes a request for a route of family f.
Serving(f) == family = f /\ resp = NoResponse

\* The response leaves the server.
Respond ==
    /\ resp # NoResponse
    /\ resp' = NoResponse
    /\ UNCHANGED <<aside, stores>>

(***************************************************************************)
(* The authorization gate.                                                 *)
(***************************************************************************)
UnauthorizedStatus == 401

\* requireAdmin of setupAuth: next() for an admin session, else the refusal.
requireAdmin(admin) == admin

\* What a refused request is answered.
Refusal(route) ==
    Response(route, FALSE, NoId, {}, NoClock, FALSE,
             [status |-> UnauthorizedStatus, body |-> ErrorBody("Unauthorized")])

\* A route lets a request through to its handler.
Passes(route, admin) == route \in AdminRoutes => requireAdmin(admin)

\* A refused request: the handler does not run, no table changes.
Refuse(route, admin) ==
    /\ ~Passes(route, admin)
    /\ resp' = Refusal(route)
    /\ UNCHANGED stores

(***************************************************************************)
(* Reviews: data access.                                                   *)
(***************************************************************************)
ReviewStatuses == { "pending", "approved", "rejected" }

\* The status column's default, used when the inserted values name none.
ReviewStatusDefault == "pending"

\* db.insert(reviews).values(review).returning(): the row the store makes of
\* the values it is given; a column the values name takes their value, and
\* updatedAt, which no caller names, takes the store's clock reading `now`.
\* The serial id is the row's position, rows never being deleted.
createReview(rs, review, now) ==
    Append(rs, [id |-> Len(rs) + 1,
                status |-> IF Given(review.status) THEN Val(review.status)
                           ELSE ReviewStatusDefault,
                modifiedContent |-> review.modifiedContent,
                updatedAt |-> now])

getApprovedReviews(rs) == { rs[i] : i \in { j \in DOMAIN rs : rs[j].status = "approved" } }

getPendingReviews(rs) == { rs[i] : i \in { j \in DOMAIN rs : rs[j].status = "pending" } }

\* db.update(reviews).set({status, modifiedContent, updatedAt: new Date()})
\* .where(eq(reviews.id, id)): a field that is undefined is not set.
updateReview(rs, id, update, at) ==
    [i \in DOMAIN rs |->
        IF rs[i].id = id
        THEN [rs[i] EXCEPT
                !.status = IF Given(update.status) THEN Val(update.status) ELSE @,
                !.modifiedContent = IF Given(update.modifiedContent)
                                    THEN update.modifiedContent ELSE @,
                !.updatedAt = at]
        ELSE rs[i]]

\* .returning() of the update, destructured: the updated row or undefined.
updatedReview(rs, id, update, at) ==
    { updateReview(rs, id, update, at)[i] : i \in { j \in DOMAIN rs : rs[j].id = id } }

\* The galleries and FAQ counts of getAdminStats; no route of the router
\* writes the faqs table.
faqCount == 0

getAdminStats(rs, gs) ==
    [faqCount |-> faqCount, galleryCount |-> Cardinality(gs),
     pendingReviewsCount |-> Cardinality(getPendingReviews(rs))]

(***************************************************************************)
(* Reviews: routes.                                                        *)
(***************************************************************************)
\* What a review body may carry for a field: nothing, or a value.
StatusInputs == { {} } \cup { {s} : s \in ReviewStatuses }

ContentInputs == { {}, {"edited"} }

\* A handler whose store call rejected: the catch block answers, no row has
\* changed.
Caught(route, admin) ==
    /\ resp' = Response(route, admin, NoId, {}, NoClock, TRUE, CatchResponse(route))
    /\ UNCHANGED stores

\* A where-clause or a value on an integer column that is given NaN: the
\* store rejects the statement.
Rejected(id) == id = NaN

\* app.get('/api/reviews')
GetReviews ==
    /\ Serving("reviews")
    /\ \/ Caught("GET /api/reviews", FALSE)
       \/ /\ resp' = Response("GET /api/reviews", FALSE, NoId, {}, NoClock, FALSE,
                        [status |-> 200,
                         body |-> [kind |-> "rows", rows |-> getApprovedReviews(reviews)]])
          /\ UNCHANGED stores
    /\ UNCHANGED aside

\* app.post('/api/reviews'): the body goes to the store as it came.
PostReview ==
    /\ Serving("reviews")
    /\ \/ Caught("POST /api/reviews", FALSE)
       \/ /\ Len(reviews) < MaxReviews
          /\ \E status \in StatusInputs, content \in ContentInputs, now \in Clock :
                LET created == createReview(reviews, [status |-> status,
                                                      modifiedContent |-> content], now)
                IN  /\ reviews' = created
                    /\ resp' = Response("POST /api/reviews", FALSE, NoId, status,
                                   NoClock, FALSE,
                                   [status |-> 201,
                                    body |-> RowBody(created[Len(created)])])
          /\ UNCHANGED <<dates, slots, galleries, photos>>
    /\ UNCHANGED aside

\* app.get('/api/admin/stats', requireAdmin)
GetAdminStats ==
    /\ (Serving("reviews") \/ Serving("galleries"))
    /\ \E admin \in BOOLEAN :
        \/ Refuse("GET /api/admin/stats", admin)
        \/ /\ Passes("GET /api/admin/stats", admin)
           /\ \/ Caught("GET /api/admin/stats", admin)
              \/ /\ resp' = Response("GET /api/admin/stats", admin, NoId, {}, NoClock,
                               FALSE,
                               [status |-> 200,
                                body |-> RowBody(getAdminStats(reviews, galleries))])
                 /\ UNCHANGED stores
    /\ UNCHANGED aside

\* app.get('/api/reviews/pending', requireAdmin)
GetPendingReviews ==
    /\ Serving("reviews")
    /\ \E admin \in BOOLEAN :
        \/ Refuse("GET /api/reviews/pending", admin)
        \/ /\ Passes("GET /api/reviews/pending", admin)
           /\ \/ Caught("GET /api/reviews/pending", admin)
              \/ /\ resp' = Response("GET /api/reviews/pending", admin, NoId, {},
                               NoClock, FALSE,
                               [status |-> 200,
                                body |-> [kind |-> "rows",
                                          rows |-> getPendingReviews(reviews)]])
                 /\ UNCHANGED stores
    /\ UNCHANGED aside

\* ReviewPatchResponse without the `if (!review)` check.
ReviewPatchResponseUnchecked(review) == [status |-> 200, body |-> JsonOf(review)]

\* The answer of the review patch route to what updateReview resolved to.
ReviewPatchResponse(review) ==
    IF ~Given(review)
    THEN [status |-> 404, body |-> ErrorBody("Recensione non trovata")]
    ELSE [status |-> 200, body |-> JsonOf(review)]

\* app.patch('/api/reviews/:id', requireAdmin)
PatchReview ==
    /\ Serving("reviews")
    /\ \E admin \in BOOLEAN :
        \/ Refuse("PATCH /api/reviews/:id", admin)
        \/ /\ Passes("PATCH /api/reviews/:id", admin)
           /\ \/ Caught("PATCH /api/reviews/:id", admin)
              \/ \E p \in PathIds, status \in StatusInputs, content \in ContentInputs,
                    at \in Clock :
                    LET id == ParsedId[p]
                        update == [status |-> status, modifiedContent |-> content]
                    IN  IF Rejected(id)
                        THEN Caught("PATCH /api/reviews/:id", admin)
                        ELSE /\ reviews' = updateReview(reviews, id, update, at)
                             /\ resp' = Response("PATCH /api/reviews/:id", admin, id,
                                            status, NoClock, FALSE,
                                            ReviewPatchResponse(
                                                updatedReview(reviews, id, update, at)))
                             /\ UNCHANGED <<dates, slots, galleries, photos>>
    /\ UNCHANGED aside

NextReviews ==
    \/ GetReviews
    \/ PostReview
    \/ GetAdminStats
    \/ GetPendingReviews
    \/ PatchReview

(***************************************************************************)
(* Availability: data access.                                              *)
(***************************************************************************)
\* The sequences that hold each row of S once, ascending by the column
\* (ORDER BY leaves the order of rows with equal keys to the store).
OrderBy(S, column) ==
    { s \in [1..Cardinality(S) -> S] :
        /\ \A i, j \in 1..Cardinality(S) : i # j => s[i] # s[j]
        /\ \A i, j \in 1..Cardinality(S) : i < j => s[i][column] <= s[j][column] }

Rows(t) == { t[i] : i \in DOMAIN t }

\* InRange with gt for gte.
InRangeAfterStart(date, startDate, endDate) == startDate < date /\ date <= endDate

\* and(gte(availabilityDates.date, startDate), lte(availabilityDates.date, endDate))
InRange(date, startDate, endDate) == startDate <= date /\ date <= endDate

\* db.insert(availabilityDates).values(date).returning()
createAvailabilityDate(ds, date, now) ==
    Append(ds, [id |-> Len(ds) + 1, date |-> date.date,
                isAvailable |-> date.isAvailable, updatedAt |-> now])

\* db.update(availabilityDates).set({isAvailable, updatedAt: new Date()})
\* .where(eq(availabilityDates.id, id)): an undefined isAvailable is not set.
updateAvailabilityDate(ds, id, isAvailable, at) ==
    [i \in DOMAIN ds |->
        IF ds[i].id = id
        THEN [ds[i] EXCEPT
                !.isAvailable = IF Given(isAvailable) THEN Val(isAvailable) ELSE @,
                !.updatedAt = at]
        ELSE ds[i]]

\* .returning() of the update, destructured: the updated row or undefined.
updatedDate(ds, id, isAvailable, at) ==
    { updateAvailabilityDate(ds, id, isAvailable, at)[i] :
        i \in { j \in DOMAIN ds : ds[j].id = id } }

\* db.insert(availabilityTimeSlots).values(slot).returning()
createAvailabilityTimeSlot(ss, slot, now) ==
    Append(ss, [id |-> Len(ss) + 1, dateId |-> slot.dateId,
                startTime |-> slot.startTime, endTime |-> slot.endTime,
                isAvailable |-> slot.isAvailable, updatedAt |-> now])

\* updateAvailabilityTimeSlot setting the negation of the slot's isAvailable
\* (a toggle) in place of the value given.
toggleAvailabilityTimeSlot(ss, id, isAvailable, at) ==
    [i \in DOMAIN ss |->
        IF ss[i].id = id
        THEN [ss[i] EXCEPT
                !.isAvailable = IF Given(isAvailable) THEN ~@ ELSE @,
                !.updatedAt = at]
        ELSE ss[i]]

\* db.update(availabilityTimeSlots).set({isAvailable, updatedAt: new Date()})
\* .where(eq(availabilityTimeSlots.id, id))
updateAvailabilityTimeSlot(ss, id, isAvailable, at) ==
    [i \in DOMAIN ss |->
        IF ss[i].id = id
        THEN [ss[i] EXCEPT
                !.isAvailable = IF Given(isAvailable) THEN Val(isAvailable) ELSE @,
                !.updatedAt = at]
        ELSE ss[i]]

updatedSlot(ss, id, isAvailable, at) ==
    { updateAvailabilityTimeSlot(ss, id, isAvailable, at)[i] :
        i \in { j \in DOMAIN ss : ss[j].id = id } }

\* getAvailabilityTimeSlots without its where clause: the slots of every
\* date.
getTimeSlotsOfAnyDate(ss, dateId) == OrderBy(Rows(ss), "startTime")

\* The results the store may give getAvailabilityTimeSlots(dateId): the
\* slots of that date, ordered by startTime.
getAvailabilityTimeSlots(ss, dateId) ==
    OrderBy({ r \in Rows(ss) : r.dateId = dateId }, "startTime")

\* { ...date, timeSlots }
WithSlots(date, timeSlots) ==
    [id |-> date.id, date |-> date.date, isAvailable |-> date.isAvailable,
     updatedAt |-> date.updatedAt, timeSlots |-> timeSlots]

\* The results the first select of getAvailabilityDates may give: the dates
\* in range, ordered by date.
availabilityDatesBetween(ds, startDate, endDate) ==
    OrderBy({ r \in Rows(ds) : InRange(r.date, startDate, endDate) }, "date")

\* The results getAvailabilityDates(startDate, endDate) may resolve to: the
\* dates in range ordered by date, each with its time slots.
getAvailabilityDates(ds, ss, startDate, endDate) ==
    UNION { { [i \in DOMAIN sel |-> WithSlots(sel[i], pick[i])] :
                pick \in { f \in [DOMAIN sel ->
                                    UNION { getAvailabilityTimeSlots(ss, sel[k].id) :
                                                k \in DOMAIN sel }] :
                            \A i \in DOMAIN sel :
                                f[i] \in getAvailabilityTimeSlots(ss, sel[i].id) } } :
            sel \in availabilityDatesBetween(ds, startDate, endDate) }

(***************************************************************************)
(* Availability: routes.                                                   *)
(***************************************************************************)
\* The isAvailable field of a body: absent, true or false.
AvailableInputs == { {}, {TRUE}, {FALSE} }

\* req.body.date: one that `new Date` parses, or one it makes an Invalid
\* Date of, which the insert throws on.
DateInputs == { {} } \cup { {d} : d \in BodyDates }

\* req.body.startTime and req.body.endTime, in hours ("09:00" is 9).
SlotTimes == { <<9, 10>>, <<10, 11>> }

\* req.body.isAvailable ?? true
OrTrue(o) == IF Given(o) THEN Val(o) ELSE TRUE

\* app.get('/api/availability')
GetAvailability ==
    /\ Serving("availability")
    /\ \/ Caught("GET /api/availability", FALSE)
       \/ /\ \E at \in Clock :
                LET startDate == at
                    endDate == setMonth(at, 3)
                IN  \E found \in getAvailabilityDates(dates, slots, startDate, endDate) :
                        resp' = Response("GET /api/availability", FALSE, NoId, {}, at,
                                    FALSE,
                                    [status |-> 200,
                                     body |-> [kind |-> "list", items |-> found]])
          /\ UNCHANGED stores
    /\ UNCHANGED aside

\* dateData with isAvailable taken from the body, as the time slot route does.
dateDataFromBody(date, isAvailable) ==
    [date |-> date, isAvailable |-> IF Given(isAvailable) THEN Val(isAvailable) ELSE TRUE]

\* const dateData = { date: new Date(req.body.date), isAvailable: true }
dateData(date, isAvailable) == [date |-> date, isAvailable |-> TRUE]

\* app.post('/api/availability', requireAdmin)
PostAvailability ==
    /\ Serving("availability")
    /\ \E admin \in BOOLEAN :
        \/ Refuse("POST /api/availability", admin)
        \/ /\ Passes("POST /api/availability", admin)
           /\ \/ Caught("POST /api/availability", admin)
              \/ \E date \in DateInputs, isAvailable \in AvailableInputs, now \in Clock :
                    IF ~Given(date)
                    THEN Caught("POST /api/availability", admin)
                    ELSE LET created == createAvailabilityDate(dates,
                                            dateData(Val(date), isAvailable), now)
                         IN  /\ Len(dates) < MaxPerTable
                             /\ Len(dates) + Len(slots) < MaxAvailRows
                             /\ dates' = created
                             /\ resp' = Response("POST /api/availability", admin, NoId,
                                            isAvailable, NoClock, FALSE,
                                            [status |-> 201,
                                             body |-> RowBody(created[Len(created)])])
                             /\ UNCHANGED <<reviews, slots, galleries, photos>>
    /\ UNCHANGED aside

\* AvailabilityPatchResponse with the not-found check of the review route.
AvailabilityPatchResponseChecked(row) ==
    IF ~Given(row)
    THEN [status |-> 404, body |-> ErrorBody("Non trovato")]
    ELSE [status |-> 200, body |-> JsonOf(row)]

\* The answer of the two availability patch routes to what the update
\* resolved to: res.json of it, whatever it is.
AvailabilityPatchResponse(row) == [status |-> 200, body |-> JsonOf(row)]

\* app.patch('/api/availability/:id', requireAdmin)
PatchAvailability ==
    /\ Serving("availability")
    /\ \E admin \in BOOLEAN :
        \/ Refuse("PATCH /api/availability/:id", admin)
        \/ /\ Passes("PATCH /api/availability/:id", admin)
           /\ \/ Caught("PATCH /api/availability/:id", admin)
              \/ \E p \in PathIds, isAvailable \in AvailableInputs, at \in Clock :
                    LET id == ParsedId[p]
                    IN  IF Rejected(id)
                        THEN Caught("PATCH /api/availability/:id", admin)
                        ELSE /\ dates' = updateAvailabilityDate(dates, id, isAvailable, at)
                             /\ resp' = Response("PATCH /api/availability/:id", admin,
                                            id, isAvailable, NoClock, FALSE,
                                            AvailabilityPatchResponse(
                                                updatedDate(dates, id, isAvailable, at)))
                             /\ UNCHANGED <<reviews, slots, galleries, photos>>
    /\ UNCHANGED aside

\* app.post('/api/availability/:id/timeslots', requireAdmin)
PostTimeSlot ==
    /\ Serving("availability")
    /\ \E admin \in BOOLEAN :
        \/ Refuse("POST /api/availability/:id/timeslots", admin)
        \/ /\ Passes("POST /api/availability/:id/timeslots", admin)
           /\ \/ Caught("POST /api/availability/:id/timeslots", admin)
              \/ \E p \in PathIds, times \in SlotTimes, isAvailable \in AvailableInputs,
                    now \in Clock :
                    LET slotData == [dateId |-> ParsedId[p], startTime |-> times[1],
                                     endTime |-> times[2],
                                     isAvailable |-> OrTrue(isAvailable)]
                        created == createAvailabilityTimeSlot(slots, slotData, now)
                    IN  IF Rejected(slotData.dateId)
                        THEN Caught("POST /api/availability/:id/timeslots", admin)
                        ELSE /\ Len(slots) < MaxPerTable
                             /\ Len(dates) + Len(slots) < MaxAvailRows
                             /\ slots' = created
                             /\ resp' = Response("POST /api/availability/:id/timeslots",
                                            admin, slotData.dateId, isAvailable, NoClock,
                                            FALSE,
                                            [status |-> 201,
                                             body |-> RowBody(created[Len(created)])])
                             /\ UNCHANGED <<reviews, dates, galleries, photos>>
    /\ UNCHANGED aside

\* app.patch('/api/availability/timeslots/:id', requireAdmin)
PatchTimeSlot ==
    /\ Serving("availability")
    /\ \E admin \in BOOLEAN :
        \/ Refuse("PATCH /api/availability/timeslots/:id", admin)
        \/ /\ Passes("PATCH /api/availability/timeslots/:id", admin)
           /\ \/ Caught("PATCH /api/availability/timeslots/:id", admin)
              \/ \E p \in PathIds, isAvailable \in AvailableInputs, at \in Clock :
                    LET id == ParsedId[p]
                    IN  IF Rejected(id)
                        THEN Caught("PATCH /api/availability/timeslots/:id", admin)
                        ELSE /\ slots' = updateAvailabilityTimeSlot(slots, id,
                                                                    isAvailable, at)
                             /\ resp' = Response("PATCH /api/availability/timeslots/:id",
                                            admin, id, isAvailable, NoClock, FALSE,
                                            AvailabilityPatchResponse(
                                                updatedSlot(slots, id, isAvailable, at)))
                             /\ UNCHANGED <<reviews, dates, galleries, photos>>
    /\ UNCHANGED aside

NextAvailability ==
    \/ GetAvailability
    \/ PostAvailability
    \/ PatchAvailability
    \/ PostTimeSlot
    \/ PatchTimeSlot

(***************************************************************************)
(* Galleries.                                                              *)
(***************************************************************************)
\* The access codes galleries are stored under, and one no gallery has.
AccessCodes == { "abc", "xyz" }

CodeInputs == AccessCodes \cup { "nope" }

Url(i) == <<"photo", i>>

\* The galleries tables a database may hold: galleries 1..n with any codes,
\* photos 1..m each of any gallery id.
GalleryTables ==
    UNION { { { [id |-> i, accessCode |-> c[i]] : i \in 1..n } :
                c \in [1..n -> AccessCodes] } : n \in 0..MaxGalleries }

PhotoTables ==
    UNION { { { [id |-> i, url |-> Url(i), galleryId |-> g[i]] : i \in 1..m } :
                g \in [1..m -> 1..MaxGalleries] } : m \in 0..MaxPhotos }

\* The rows db.select({id, accessCode}).from(galleries)
\* .where(eq(galleries.accessCode, code)) gives; the first is taken.
galleriesByAccessCode(gs, code) == { g \in gs : g.accessCode = code }

\* getGalleryByAccessCode's result for the row it took: the gallery with its
\* photos as {id, url}.
galleryWithPhotos(ps, gallery) ==
    [id |-> gallery.id, accessCode |-> gallery.accessCode,
     photos |-> { [id |-> ph.id, url |-> ph.url] :
                    ph \in { q \in ps : q.galleryId = gallery.id } }]

\* What getGalleryByAccessCode(code) may resolve to: undefined ({}) when no
\* row matches, else one matching gallery.
getGalleryByAccessCode(gs, ps, code) ==
    IF galleriesByAccessCode(gs, code) = {}
    THEN { {} }
    ELSE { { galleryWithPhotos(ps, g) } : g \in galleriesByAccessCode(gs, code) }

\* getPhotosByGalleryId without its where clause.
getPhotosOfAnyGallery(ps, galleryId) == ps

getPhotosByGalleryId(ps, galleryId) == { ph \in ps : ph.galleryId = galleryId }

\* { ...gallery, photos }
GalleryBody(gallery, found) ==
    RowBody([id |-> gallery.id, accessCode |-> gallery.accessCode, photos |-> found])

\* app.get('/api/galleries/access/:code')
GetGalleryByAccessCode ==
    /\ Serving("galleries")
    /\ \/ Caught("GET /api/galleries/access/:code", FALSE)
       \/ \E code \in CodeInputs :
            \E gallery \in getGalleryByAccessCode(galleries, photos, code) :
                IF ~Given(gallery)
                THEN /\ resp' = Response("GET /api/galleries/access/:code", FALSE, NoId,
                                    {code}, NoClock, FALSE,
                                    [status |-> 404,
                                     body |-> ErrorBody("Galleria non trovata")])
                     /\ UNCHANGED stores
                ELSE \/ Caught("GET /api/galleries/access/:code", FALSE)
                     \/ /\ resp' = Response("GET /api/galleries/access/:code", FALSE,
                                       NoId, {code}, NoClock, FALSE,
                                       [status |-> 200,
                                        body |-> GalleryBody(Val(gallery),
                                                    getPhotosByGalleryId(photos,
                                                        Val(gallery).id))])
                        /\ UNCHANGED stores
    /\ UNCHANGED aside

NextGalleries == GetGalleryByAccessCode

(***************************************************************************)
(* Availability: GET /api/availability read by read.                       *)
(*                                                                         *)
(* getAvailabilityDates awaits one select of the dates and then, under     *)
(* Promise.all, one select of the time slots per date.  Each select is a   *)
(* statement of its own (no transaction spans them), so each is a step     *)
(* here and the writes of other requests may come between two of them.     *)
(* The per-date selects are all issued before any is awaited: the store    *)
(* answers them in any order.  A response in hand is sent before the next  *)
(* select is taken: sending it changes no table, so a select taken before  *)
(* it reads what one taken after it reads.                                 *)
(***************************************************************************)
\* No listing is in flight.
NoAggregation == [reading |-> FALSE, at |-> NoClock, dates |-> <<>>, timeSlots |-> <<>>]

\* The states the availability tables have been in: those logged and the
\* present one.
History == past \cup { <<dates, slots>> }

\* The handler up to the first await of getAvailabilityDates resolving: the
\* window is read off the clock and the dates in it are selected.
BeginAvailability ==
    /\ Serving("availability")
    /\ aggregation = NoAggregation
    /\ \E at \in Clock :
          \E sel \in availabilityDatesBetween(dates, at, setMonth(at, 3)) :
              aggregation' = [reading |-> TRUE, at |-> at, dates |-> sel,
                              timeSlots |-> [i \in DOMAIN sel |-> {}]]
    /\ UNCHANGED <<family, stores, resp, past>>

\* One callback of dates.map: this.getAvailabilityTimeSlots(date.id) resolves.
FetchTimeSlots ==
    /\ aggregation.reading
    /\ resp = NoResponse
    /\ \E i \in DOMAIN aggregation.dates :
          /\ ~Given(aggregation.timeSlots[i])
          /\ \E timeSlots \in getAvailabilityTimeSlots(slots, aggregation.dates[i].id) :
                aggregation' =
                    [aggregation EXCEPT !.timeSlots[i] = { timeSlots }]
    /\ UNCHANGED <<family, stores, resp, past>>

\* datesWithSlots: each date read with the time slots read for it.
datesWithSlots(a) ==
    [i \in DOMAIN a.dates |-> WithSlots(a.dates[i], Val(a.timeSlots[i]))]

\* Promise.all resolves and the handler answers res.json(dates).
EndAvailability ==
    /\ aggregation.reading
    /\ resp = NoResponse
    /\ \A i \in DOMAIN aggregation.dates : Given(aggregation.timeSlots[i])
    /\ resp' = Response("GET /api/availability", FALSE, NoId, {}, aggregation.at,
                        FALSE,
                        [status |-> 200,
                         body |-> [kind |-> "list",
                                   items |-> datesWithSlots(aggregation)]])
    /\ aggregation' = NoAggregation
    /\ UNCHANGED <<family, stores, past>>

\* A select of the listing rejects (the first one included, whose result is
\* then not used): the handler's catch block answers.
AbortAvailability ==
    /\ aggregation.reading
    /\ resp = NoResponse
    /\ Caught("GET /api/availability", FALSE)
    /\ aggregation' = NoAggregation
    /\ UNCHANGED <<family, past>>

\* An admin route of the availability family, served in one step: each makes
\* one store call, which is one statement.
AdminWrite ==
    /\ Cardinality(past) < MaxPast
    /\ \/ PostAvailability
       \/ PatchAvailability
       \/ PostTimeSlot
       \/ PatchTimeSlot

\* The response leaves the server; the state the tables are in is logged.
Answer ==
    /\ resp # NoResponse
    /\ resp' = NoResponse
    /\ past' = past \cup { <<dates, slots>> }
    /\ UNCHANGED <<family, stores, aggregation>>

(***************************************************************************)
(* The system.                                                             *)
(***************************************************************************)
Families == { "reviews", "availability", "galleries" }

Init ==
    /\ family \in Families
    /\ reviews = <<>>
    /\ dates = <<>>
    /\ slots = <<>>
    /\ galleries \in (IF family = "galleries" THEN GalleryTables ELSE { {} })
    /\ photos \in (IF family = "galleries" THEN PhotoTables ELSE { {} })
    /\ resp = NoResponse
    /\ aggregation = NoAggregation
    /\ past = { <<dates, slots>> }

Next == NextReviews \/ NextAvailability \/ NextGalleries \/ Respond

Spec == Init /\ [][Next]_vars

\* The availability routes with GET /api/availability read by read.
InitAggregation == Init /\ family = "availability"

NextAggregation ==
    \/ BeginAvailability
    \/ FetchTimeSlots
    \/ EndAvailability
    \/ AbortAvailability
    \/ AdminWrite
    \/ Answer

SpecAggregation == InitAggregation /\ [][NextAggregation]_vars

(***************************************************************************)
(* Claims.                                                                 *)
(***************************************************************************)
Ids(t) == { t[i].id : i \in DOMAIN t }

\* C1: every review created through POST /api/reviews, whatever its body
\* carries, is pending until an admin PATCH /api/reviews/:id sets it to
\* approved or rejected (a review is created non-pending, or leaves pending,
\* only in such a step), and GET /api/reviews returns approved reviews only.
C1_PendingUntilModerated ==
    /\ [][\A i \in DOMAIN reviews' :
            ((i \notin DOMAIN reviews \/ reviews[i].status = "pending")
                /\ reviews'[i].status # "pending")
            => /\ resp'.route = "PATCH /api/reviews/:id"
               /\ resp'.admin
               /\ reviews'[i].status \in { "approved", "rejected" }]_vars
    /\ [](resp.route = "GET /api/reviews" /\ resp.status = 200
            => \A r \in resp.body.rows : r.status \notin { "pending", "rejected" })

\* C2: a request to an admin-only route without a valid admin session is
\* answered an authorization failure and changes no table.
C2_AdminOnly ==
    { "GET /api/admin/stats", "GET /api/reviews/pending", "PATCH /api/reviews/:id",
      "POST /api/availability", "PATCH /api/availability/:id",
      "POST /api/availability/:id/timeslots",
      "PATCH /api/availability/timeslots/:id" }

C2_GateKeepsHandlerOut ==
    [][(resp'.route \in C2_AdminOnly /\ ~resp'.admin)
        => (resp'.status \in { 401, 403 } /\ UNCHANGED stores)]_vars

C2_Witness ==
    /\ resp.route = "PATCH /api/reviews/:id"
    /\ ~resp.admin
    /\ resp.status = 401
    /\ \E i \in DOMAIN reviews : reviews[i].status = "pending"

\* C3: every change of a review's status goes from pending to approved or
\* to rejected, and no review has a status outside pending, approved,
\* rejected.
C3_StatusOnlyLeavesPending ==
    /\ [][\A i \in DOMAIN reviews :
            reviews'[i].status # reviews[i].status
            => /\ reviews[i].status = "pending"
               /\ reviews'[i].status \in { "approved", "rejected" }]_vars
    /\ [](\A i \in DOMAIN reviews :
            reviews[i].status \in { "pending", "approved", "rejected" })

\* C4: an admin PATCH /api/reviews/:id whose id matches no review row, the
\* store having answered, is answered 404 and modifies no row.
C4_UnknownReviewIs404 ==
    [][(/\ resp'.route = "PATCH /api/reviews/:id"
        /\ resp'.admin
        /\ ~resp'.storeError
        /\ resp'.id \notin Ids(reviews))
        => (resp'.status = 404 /\ UNCHANGED stores)]_vars

C4_Witness ==
    /\ resp.route = "PATCH /api/reviews/:id"
    /\ resp.admin
    /\ resp.status = 404
    /\ resp.id \notin Ids(reviews)
    /\ Len(reviews) > 0

\* C5: an admin PATCH /api/availability/:id or
\* PATCH /api/availability/timeslots/:id whose id matches no row, the store
\* having answered, is answered 200 with no body; neither route answers
\* 404, and neither answers 500 unless the store call threw.
C5_Table(route) == IF route = "PATCH /api/availability/:id" THEN dates ELSE slots

C5_UnknownAvailabilityIs200 ==
    (/\ resp.route \in { "PATCH /api/availability/:id",
                         "PATCH /api/availability/timeslots/:id" }
     /\ resp.admin)
    => /\ resp.status # 404
       /\ resp.status = 500 => resp.storeError
       /\ (~resp.storeError /\ resp.id \notin Ids(C5_Table(resp.route)))
            => (resp.status = 200 /\ resp.body = [kind |-> "empty"])

C5_Witness ==
    /\ resp.route = "PATCH /api/availability/timeslots/:id"
    /\ resp.admin
    /\ ~resp.storeError
    /\ resp.id \notin Ids(slots)
    /\ Len(slots) > 0
    /\ resp.status = 200

\* C6: GET /api/availability with the clock at D returns exactly the
\* availability dates with D <= date <= D + 3 months, each once and as
\* stored, ascending by date, each with exactly the time slots whose dateId
\* is its id, each once and as stored, ascending by startTime.
C6_Listed == { resp.body.items[i].id : i \in DOMAIN resp.body.items }

C6_SlotsOf(item) == { item.timeSlots[k] : k \in DOMAIN item.timeSlots }

C6_WindowIsExact ==
    (resp.route = "GET /api/availability" /\ resp.status = 200)
    => LET items == resp.body.items
       IN  /\ C6_Listed = { d.id : d \in { r \in Rows(dates) :
                                resp.at <= r.date /\ r.date <= setMonth(resp.at, 3) } }
           /\ Len(items) = Cardinality(C6_Listed)
           /\ \A i \in DOMAIN items :
                /\ \E d \in Rows(dates) :
                    /\ d.id = items[i].id
                    /\ d.date = items[i].date
                    /\ d.isAvailable = items[i].isAvailable
                    /\ d.updatedAt = items[i].updatedAt
                /\ C6_SlotsOf(items[i]) = { r \in Rows(slots) : r.dateId = items[i].id }
                /\ Len(items[i].timeSlots) = Cardinality(C6_SlotsOf(items[i]))
                /\ \A k \in 1..(Len(items[i].timeSlots) - 1) :
                    items[i].timeSlots[k].startTime <= items[i].timeSlots[k + 1].startTime
           /\ \A i \in 1..(Len(items) - 1) : items[i].date <= items[i + 1].date

C6_Witness ==
    /\ resp.route = "GET /api/availability"
    /\ resp.status = 200
    /\ \E i \in DOMAIN resp.body.items :
        /\ resp.body.items[i].date = resp.at
        /\ Len(resp.body.items[i].timeSlots) = 2
        /\ resp.body.items[i].timeSlots[1].startTime
            < resp.body.items[i].timeSlots[2].startTime
        /\ resp.body.items[i].timeSlots[1].id > resp.body.items[i].timeSlots[2].id

\* C7: an admin POST /api/availability is answered 201 with the stored date,
\* isAvailable true whatever the body says; an admin
\* POST /api/availability/<id>/timeslots without isAvailable is answered 201
\* with the stored slot, isAvailable true and dateId <id>; and a
\* GET /api/availability lists every stored date inside its window with
\* each of that date's slots nested under it and under no other date.
C7_CreatedThenListed ==
    /\ (resp.route = "POST /api/availability" /\ resp.admin /\ ~resp.storeError)
        => /\ resp.status = 201
           /\ resp.body.row.isAvailable = TRUE
           /\ resp.body.row \in Rows(dates)
    /\ (/\ resp.route = "POST /api/availability/:id/timeslots"
        /\ resp.admin
        /\ ~resp.storeError
        /\ resp.arg = {})
        => /\ resp.status = 201
           /\ resp.body.row.isAvailable = TRUE
           /\ resp.body.row.dateId = resp.id
           /\ resp.body.row \in Rows(slots)
    /\ (resp.route = "GET /api/availability" /\ resp.status = 200)
        => \A d \in Rows(dates), s \in Rows(slots) :
            (resp.at <= d.date /\ d.date <= setMonth(resp.at, 3) /\ s.dateId = d.id)
            => \E i \in DOMAIN resp.body.items :
                /\ resp.body.items[i].id = d.id
                /\ s \in C6_SlotsOf(resp.body.items[i])
                /\ \A j \in DOMAIN resp.body.items :
                    s \in C6_SlotsOf(resp.body.items[j]) => j = i

C7_Witness ==
    /\ resp.route = "GET /api/availability"
    /\ resp.status = 200
    /\ Len(resp.body.items) = 2
    /\ \E i \in DOMAIN resp.body.items :
        /\ Len(resp.body.items[i].timeSlots) = 1
        /\ resp.body.items[i].isAvailable
        /\ resp.body.items[i].timeSlots[1].isAvailable

\* C8: GET /api/galleries/access/:code, the store having answered, is
\* answered 404 exactly when no gallery has that access code; otherwise it
\* returns a gallery that has the code, with exactly the photos whose
\* galleryId is that gallery's id.
C8_GalleryWithItsPhotos ==
    (resp.route = "GET /api/galleries/access/:code" /\ ~resp.storeError)
    => /\ resp.status \in { 200, 404 }
       /\ resp.status = 404 <=> (\A g \in galleries : {g.accessCode} # resp.arg)
       /\ resp.status = 200
            => /\ {resp.body.row.accessCode} = resp.arg
               /\ [id |-> resp.body.row.id, accessCode |-> resp.body.row.accessCode]
                    \in galleries
               /\ resp.body.row.photos
                    = { ph \in photos : ph.galleryId = resp.body.row.id }

C8_Witness ==
    /\ resp.route = "GET /api/galleries/access/:code"
    /\ resp.status = 200
    /\ resp.body.row.photos # {}
    /\ \E ph \in photos : ph.galleryId # resp.body.row.id

\* C9 as stated: an admin PATCH /api/availability/timeslots/:id issued on
\* the state the same PATCH left (the slot, if any, already has the
\* request's isAvailable) is answered 200 and leaves the store as it was.
C9_Repeats ==
    /\ resp'.route = "PATCH /api/availability/timeslots/:id"
    /\ resp'.admin
    /\ ~resp'.storeError
    /\ \A i \in DOMAIN slots :
        (slots[i].id = resp'.id /\ Given(resp'.arg))
        => slots[i].isAvailable = Val(resp'.arg)

C9_SameStoreState ==
    [][C9_Repeats => (resp'.status = 200 /\ UNCHANGED stores)]_vars

\* C9 as amended: the repeated PATCH is answered 200 and leaves every table
\* as it was, but for the updatedAt of the slot it names, which takes the
\* clock reading of the repeated request (the one the response shows).
C9_Unstamped(ss) == [i \in DOMAIN ss |-> [ss[i] EXCEPT !.updatedAt = NoClock]]

C9_SameButUpdatedAt ==
    [][C9_Repeats
        => /\ resp'.status = 200
           /\ UNCHANGED <<reviews, dates, galleries, photos>>
           /\ C9_Unstamped(slots') = C9_Unstamped(slots)
           /\ \A i \in DOMAIN slots :
                slots'[i].updatedAt =
                    IF slots[i].id = resp'.id THEN resp'.body.row.updatedAt
                    ELSE slots[i].updatedAt]_vars

C9_Witness ==
    /\ resp.route = "PATCH /api/availability/timeslots/:id"
    /\ resp.admin
    /\ resp.status = 200
    /\ resp.arg = {FALSE}
    /\ Len(slots) = 2
    /\ \E i \in DOMAIN slots :
        /\ slots[i].id = resp.id
        /\ resp.body = [kind |-> "row", row |-> slots[i]]

\* C10: a store call that throws or rejects inside a handler ends in status
\* 500 with the body {error: message}, the message being that route's own
\* and no other route's.
C10_StoreErrorIs500 ==
    resp.storeError
    => /\ resp.status = 500
       /\ resp.body.kind = "error"
       /\ resp.body = [kind |-> "error", error |-> ErrorMessage(resp.route)]
       /\ \A r \in Routes \ {resp.route} : ErrorMessage(r) # resp.body.error

C10_Witness ==
    /\ resp.storeError
    /\ resp.route = "POST /api/availability/:id/timeslots"
    /\ resp.status = 500
    /\ Len(dates) > 0

\* C11: GET /api/availability read by read, admin writes coming between its
\* selects (SpecAggregation).  Every select of the listing returns what that
\* select gives on a state the tables have been in: the dates selected are
\* the in-window dates of one such state, and the slots fetched for a date
\* are that date's slots in one such state (not necessarily the same one).
\* Every slot nested under a date, in the listing being built and in the
\* listing answered, has dateId equal to that date's id.  That the listing
\* answered may be the listing of no state the tables have been in is the
\* state C11_Witness describes.
C11_DateRow(item) ==
    [id |-> item.id, date |-> item.date, isAvailable |-> item.isAvailable,
     updatedAt |-> item.updatedAt]

C11_DatesReadExisted(at, read) ==
    \E H \in History : read \in availabilityDatesBetween(H[1], at, setMonth(at, 3))

C11_SlotsReadExisted(dateId, read) ==
    \E H \in History : read \in getAvailabilityTimeSlots(H[2], dateId)

C11_SlotsAreOf(dateId, read) == \A k \in DOMAIN read : read[k].dateId = dateId

C11_EachReadIsOfAStoreState ==
    /\ aggregation.reading
        => /\ C11_DatesReadExisted(aggregation.at, aggregation.dates)
           /\ \A i \in DOMAIN aggregation.dates :
                Given(aggregation.timeSlots[i])
                => /\ C11_SlotsReadExisted(aggregation.dates[i].id,
                                           Val(aggregation.timeSlots[i]))
                   /\ C11_SlotsAreOf(aggregation.dates[i].id,
                                     Val(aggregation.timeSlots[i]))
    /\ (resp.route = "GET /api/availability" /\ resp.status = 200)
        => LET items == resp.body.items
           IN  /\ C11_DatesReadExisted(resp.at,
                        [i \in DOMAIN items |-> C11_DateRow(items[i])])
               /\ \A i \in DOMAIN items :
                    /\ C11_SlotsReadExisted(items[i].id, items[i].timeSlots)
                    /\ C11_SlotsAreOf(items[i].id, items[i].timeSlots)

\* A listing answered that is the listing of no state the tables have been
\* in: it has a date as it was before a write and a slot stored after it.
C11_Witness ==
    /\ resp.route = "GET /api/availability"
    /\ resp.status = 200
    /\ \E i \in DOMAIN resp.body.items : Len(resp.body.items[i].timeSlots) > 0
    /\ \A H \in History :
        resp.body.items
            \notin getAvailabilityDates(H[1], H[2], resp.at, setMonth(resp.at, 3))
====
